---- MODULE Spec2Model ----
(***************************************************************************)
(* Ingestion-enrichment pipeline of the academic job aggregator:           *)
(*   backend/ai_processor.py  AIJobProcessor (summarizer, classifier,      *)
(*                            enrichment pass)                             *)
(*   backend/scraper.py       LondonAcademicScraper.save_jobs_to_db        *)
(*   backend/server.py        create_job                                   *)
(*   backend/init_data.py     SimpleJobInitializer.save_jobs_to_db         *)
(* Text is modelled as a sequence of one-character strings, so that        *)
(* lower-casing, substring search, splitting and slicing are computed.     *)
(* An Optional value is <<>> (None) or <<v>>.                              *)
(***************************************************************************)
EXTENDS Integers, Sequences, FiniteSets, TLC

None == <<>>

Some(v) == <<v>>

Min(a, b) == IF a <= b THEN a ELSE b

\* ------------------------------------------------------------------ text

UpperAZ ==
    <<"A","B","C","D","E","F","G","H","I","J","K","L","M",
      "N","O","P","Q","R","S","T","U","V","W","X","Y","Z">>

LowerAZ ==
    <<"a","b","c","d","e","f","g","h","i","j","k","l","m",
      "n","o","p","q","r","s","t","u","v","w","x","y","z">>

\* str.lower(), character by character
lower(s) ==
    [i \in 1..Len(s) |->
        IF \E k \in 1..Len(UpperAZ) : UpperAZ[k] = s[i]
        THEN LowerAZ[CHOOSE k \in 1..Len(UpperAZ) : UpperAZ[k] = s[i]]
        ELSE s[i]]

\* Python's  w in s  for strings
Contains(s, w) ==
    \E i \in 0..(Len(s) - Len(w)) : SubSeq(s, i + 1, i + Len(w)) = w

\* Python's  s[:n]
Slice(s, n) == SubSeq(s, 1, Min(n, Len(s)))

\* Python's  s.split(sep)  for a non-empty separator
RECURSIVE split(_, _)
split(s, sep) ==
    LET hits == {i \in 1..(Len(s) - Len(sep) + 1) : SubSeq(s, i, i + Len(sep) - 1) = sep}
    IN  IF hits = {}
        THEN <<s>>
        ELSE LET i == CHOOSE h \in hits : \A g \in hits : h <= g
             IN  <<SubSeq(s, 1, i - 1)>> \o split(SubSeq(s, i + Len(sep), Len(s)), sep)

\* Python's  sep.join(parts)
RECURSIVE join(_, _)
join(sep, parts) ==
    IF Len(parts) = 0 THEN <<>>
    ELSE IF Len(parts) = 1 THEN parts[1]
    ELSE parts[1] \o sep \o join(sep, Tail(parts))

Whitespace == {" ", "\t", "\n", "\r"}

\* Python's  s.strip()
strip(s) ==
    LET keep == {i \in 1..Len(s) : s[i] \notin Whitespace}
    IN  IF keep = {} THEN <<>>
        ELSE SubSeq(s, CHOOSE i \in keep : \A k \in keep : i <= k,
                       CHOOSE i \in keep : \A k \in keep : i >= k)

\* any(word in combined for word in words)
AnyWordIn(words, combined) ==
    \E k \in 1..Len(words) : Contains(combined, words[k])

PeriodSpace == <<".", " ">>

Ellipsis == <<".", ".", ".">>

\* ------------------------------------------------- keyword groups (code)

ResearchKeywords ==
    << <<"r", "e", "s", "e", "a", "r", "c", "h">>,
       <<"p", "o", "s", "t", "d", "o", "c">>,
       <<"r", "e", "s", "e", "a", "r", "c", "h", " ", "a", "s", "s", "o", "c", "i", "a", "t", "e">>,
       <<"r", "e", "s", "e", "a", "r", "c", "h", " ", "f", "e", "l", "l", "o", "w">> >>

TeachingKeywords ==
    << <<"l", "e", "c", "t", "u", "r", "e", "r">>,
       <<"p", "r", "o", "f", "e", "s", "s", "o", "r">>,
       <<"t", "e", "a", "c", "h", "i", "n", "g">>,
       <<"f", "a", "c", "u", "l", "t", "y">> >>

PhDKeywords ==
    << <<"p", "h", "d">>,
       <<"d", "o", "c", "t", "o", "r", "a", "l">>,
       <<"d", "o", "c", "t", "o", "r", "a", "t", "e">> >>

FellowshipKeywords ==
    << <<"f", "e", "l", "l", "o", "w", "s", "h", "i", "p">>,
       <<"f", "e", "l", "l", "o", "w">> >>

InternshipKeywords ==
    << <<"i", "n", "t", "e", "r", "n">>,
       <<"i", "n", "t", "e", "r", "n", "s", "h", "i", "p">>,
       <<"t", "r", "a", "i", "n", "e", "e">> >>

TechnicalKeywords ==
    << <<"t", "e", "c", "h", "n", "i", "c", "a", "l">>,
       <<"e", "n", "g", "i", "n", "e", "e", "r">>,
       <<"a", "n", "a", "l", "y", "s", "t">>,
       <<"d", "e", "v", "e", "l", "o", "p", "e", "r">> >>

AdministrativeKeywords ==
    << <<"a", "d", "m", "i", "n", "i", "s", "t", "r", "a", "t", "o", "r">>,
       <<"m", "a", "n", "a", "g", "e", "r">>,
       <<"c", "o", "o", "r", "d", "i", "n", "a", "t", "o", "r">>,
       <<"o", "f", "f", "i", "c", "e", "r">> >>


WPostdoc == <<"P", "o", "s", "t", "d", "o", "c">>
WLecturer == <<"l", "e", "c", "t", "u", "r", "e", "r">>
WPhD == <<"P", "h", "D">>
WFellow == <<"f", "e", "l", "l", "o", "w">>
WIntern == <<"i", "n", "t", "e", "r", "n">>
WEngineer == <<"e", "n", "g", "i", "n", "e", "e", "r">>
WOfficer == <<"o", "f", "f", "i", "c", "e", "r">>
WStaff == <<"s", "t", "a", "f", "f">>

TitlePostdoctoral ==
    <<"P", "o", "s", "t", "d", "o", "c", "t", "o", "r", "a", "l", " ", "R", "e", "s", "e", "a", "r", "c", "h", "e", "r">>

DescRobotics ==
    <<"T", "h", "i", "s", " ", "r", "o", "l", "e", " ", "r", "e", "q", "u", "i", "r", "e", "s", " ", "a", " ", "P", "h", "D", ".", " ", "T", "h", "e", " ", "l", "a", "b", " ", "f", "o", "c", "u", "s", "e", "s", " ", "o", "n", " ", "r", "o", "b", "o", "t", "i", "c", "s", ".", " ", "F", "u", "n", "d", "i", "n", "g", " ", "i", "s", " ", "a", "v", "a", "i", "l", "a", "b", "l", "e", ".">>

\* ------------------------------------------------ AIJobProcessor, pure part

\* The key the processor reads from the environment: unset, empty, the
\* placeholder of the sample configuration, or a real credential.
KeyUnset == None

KeyEmpty == Some("")

KeyPlaceholder == Some("your_openrouter_key_here")

KeyReal == Some("sk-or-live")

ApiKeys == {KeyUnset, KeyEmpty, KeyPlaceholder, KeyReal}

\* (variant: only an unset key disables the AI path)
api_enabled_unless_unset(openrouter_api_key) == openrouter_api_key # None

\* __init__: self.api_enabled
api_enabled(openrouter_api_key) ==
    ~ (openrouter_api_key = None \/ openrouter_api_key = Some("")
       \/ openrouter_api_key = KeyPlaceholder)

\* What one POST to the external service gives: status 0 stands for no
\* response at all (network failure, timeout: httpx raises); content is
\* choices[0].message.content, None when the body does not hold it.
NoResponse == [status |-> 0, content |-> None]

\* no POST is made (the AI path is disabled, or the step needs no call)
NotCalled == [status |-> -1, content |-> None]

Http500 == [status |-> 500, content |-> None]

Malformed == [status |-> 200, content |-> None]

Ok(content) == [status |-> 200, content |-> Some(content)]

FailingResponses == {NoResponse, Http500, Malformed}

TextAI == <<"A", "I", " ", "s", "u", "m", "m", "a", "r", "y", ".">>

TextPadded == <<" ">> \o TextAI \o <<"\n">>

TextBlank == <<" ", "\n">>

SummaryResponses == FailingResponses \cup {Ok(TextAI), Ok(TextPadded), Ok(TextBlank)}

\* the category names as the text the service sends
CategoryText ==
    [Research |-> <<"R", "e", "s", "e", "a", "r", "c", "h">>,
     Teaching |-> <<"T", "e", "a", "c", "h", "i", "n", "g">>,
     Administrative |-> <<"A", "d", "m", "i", "n", "i", "s", "t", "r", "a", "t", "i", "v", "e">>,
     Technical |-> <<"T", "e", "c", "h", "n", "i", "c", "a", "l">>,
     Internship |-> <<"I", "n", "t", "e", "r", "n", "s", "h", "i", "p">>,
     Fellowship |-> <<"F", "e", "l", "l", "o", "w", "s", "h", "i", "p">>,
     PhD |-> <<"P", "h", "D">>,
     General |-> <<"G", "e", "n", "e", "r", "a", "l">>]

LabelOther == <<"O", "t", "h", "e", "r">>

LabelLower == <<"t", "e", "c", "h", "n", "i", "c", "a", "l">>

LabelPadded == <<" ">> \o CategoryText["Research"] \o <<"\n">>

CategoryResponses ==
    FailingResponses
    \cup {Ok(CategoryText["Technical"]), Ok(CategoryText["General"]),
          Ok(LabelOther), Ok(LabelLower), Ok(LabelPadded)}

SummaryCut == 200

\* (variant: a description of one sentence is headed by the title)
generate_basic_summary_titled(title, description) ==
    LET sentences == split(description, PeriodSpace)
    IN  IF Len(sentences) >= 2
        THEN join(PeriodSpace, SubSeq(sentences, 1, 2)) \o <<".">>
        ELSE title \o <<":", " ">> \o Slice(description, SummaryCut)

\* (variant: the cut text gets no marker)
generate_basic_summary_no_marker(title, description) ==
    LET sentences == split(description, PeriodSpace)
    IN  IF Len(sentences) >= 2
        THEN join(PeriodSpace, SubSeq(sentences, 1, 2)) \o <<".">>
        ELSE Slice(description, SummaryCut)

generate_basic_summary(title, description) ==
    LET sentences == split(description, PeriodSpace)
    IN  IF Len(sentences) >= 2
        THEN join(PeriodSpace, SubSeq(sentences, 1, 2)) \o <<".">>
        ELSE IF Len(description) > SummaryCut
             THEN Slice(description, SummaryCut) \o Ellipsis
             ELSE description

\* (variant: a failed call gives an empty summary instead of the fallback)
summarize_job_description_no_fallback(enabled, response, title, description, university) ==
    IF ~ enabled
    THEN generate_basic_summary(title, description)
    ELSE IF response.status = 200 /\ response.content # None
         THEN strip(response.content[1])
         ELSE <<>>

\* summarize_job_description, given the response its POST (if any) gets
summarize_job_description(enabled, response, title, description, university) ==
    IF ~ enabled
    THEN generate_basic_summary(title, description)
    ELSE IF response.status = 200 /\ response.content # None
         THEN strip(response.content[1])
         ELSE generate_basic_summary(title, description)

\* (variant: the Teaching group is tested before the Research group)
basic_categorization_teaching_first(title, description) ==
    LET combined == lower(title) \o <<" ">> \o lower(description)
    IN  IF AnyWordIn(TeachingKeywords, combined) THEN "Teaching"
        ELSE IF AnyWordIn(ResearchKeywords, combined) THEN "Research"
        ELSE IF AnyWordIn(PhDKeywords, combined) THEN "PhD"
        ELSE IF AnyWordIn(FellowshipKeywords, combined) THEN "Fellowship"
        ELSE IF AnyWordIn(InternshipKeywords, combined) THEN "Internship"
        ELSE IF AnyWordIn(TechnicalKeywords, combined) THEN "Technical"
        ELSE IF AnyWordIn(AdministrativeKeywords, combined) THEN "Administrative"
        ELSE "General"

basic_categorization(title, description) ==
    LET combined == lower(title) \o <<" ">> \o lower(description)
    IN  IF AnyWordIn(ResearchKeywords, combined) THEN "Research"
        ELSE IF AnyWordIn(TeachingKeywords, combined) THEN "Teaching"
        ELSE IF AnyWordIn(PhDKeywords, combined) THEN "PhD"
        ELSE IF AnyWordIn(FellowshipKeywords, combined) THEN "Fellowship"
        ELSE IF AnyWordIn(InternshipKeywords, combined) THEN "Internship"
        ELSE IF AnyWordIn(TechnicalKeywords, combined) THEN "Technical"
        ELSE IF AnyWordIn(AdministrativeKeywords, combined) THEN "Administrative"
        ELSE "General"

\* (variant: the sentinel is accepted as a label)
valid_categories_with_general ==
    {"Research", "Teaching", "Administrative", "Technical", "Internship",
     "Fellowship", "PhD", "General"}

valid_categories ==
    {"Research", "Teaching", "Administrative", "Technical", "Internship",
     "Fellowship", "PhD"}

\* categorize_job_with_ai, given the response its POST (if any) gets
categorize_job_with_ai(enabled, response, title, description) ==
    IF ~ enabled
    THEN basic_categorization(title, description)
    ELSE IF response.status = 200 /\ response.content # None
         THEN LET category == strip(response.content[1])
              IN  IF \E c \in valid_categories : CategoryText[c] = category
                  THEN CHOOSE c \in valid_categories : CategoryText[c] = category
                  ELSE basic_categorization(title, description)
         ELSE basic_categorization(title, description)

\* ---------------------------------------------------------------- bounds

\* Postings the storage may hold in the small specifications.
MaxJobs == 2

\* Candidates of one save_jobs_to_db call.
MaxBatch == 2

\* Identifiers drawn before the initializer is started for the last time.
MaxIds == 2

\* ----------------------------------------------------------------- state

Passes == {"p1"}

\* two processor processes started independently of each other
AllPasses == {"p1", "p2"}

Runs == {"r1"}

\* two scraper processes started independently of each other
RaceRuns == {"r1", "r2"}

\* init_data.py
Initializers == {"i1"}

AllRuns == RaceRuns \cup Initializers

VARIABLES
    jobs,      \* db.jobs, in insertion (natural) order
    next_id,   \* stands for uuid.uuid4(): the next identifier is unused
    passes,    \* each process_unprocessed_jobs call: locals and pass history
    runs,      \* each save_jobs_to_db call (scraper's or initializer's): locals
               \* and call history
    fn         \* one application of the classifier and summarizer to an input

vars == <<jobs, next_id, passes, runs, fn>>

Universities == {"UCL", "KCL"}

Urls == {"/jobs/a", "/jobs/b"}

DescThree ==
    WPhD \o PeriodSpace \o WFellow \o PeriodSpace \o WStaff

Given == <<"g", "i", "v", "e", "n">>

\* Job(**job): the stored document; date_added (utcnow at creation) is
\* given as the creation order
Job(id, title, university, description, url, category, summary, is_active) ==
    [id |-> id, title |-> title, university |-> university,
     description |-> description, url |-> url, location |-> "London, UK",
     deadline |-> None, category |-> category, summary |-> summary,
     date_added |-> id, is_active |-> is_active]

\* a document stored without the description field
Absent == <<"(absent)">>

\* scrape_university_jobs: a candidate of a source adapter, before it has
\* an identifier in storage
Candidates ==
    {[title |-> WPostdoc, university |-> u, description |-> DescThree, url |-> l,
      category |-> Some("Teaching"), summary |-> None, is_active |-> TRUE]
        : u \in Universities, l \in Urls}

\* JobCreate payloads of POST /api/jobs
JobCreate(title, description, category, summary) ==
    [title |-> title, university |-> "UCL", description |-> description,
     url |-> "/jobs/a", category |-> category, summary |-> summary]

ApiRequests ==
    {JobCreate(WStaff, WStaff, Some("General"), None),
     JobCreate(WPostdoc, DescThree, None, None),
     JobCreate(WOfficer, <<>>, Some(""), None),
     JobCreate(WEngineer, WStaff, Some("Other"), None),
     JobCreate(WLecturer, WStaff, Some("Teaching"), Some(Given))}

BatchLimit == 10

IdlePass ==
    [pc |-> "idle", key |-> None, cursor |-> <<>>, idx |-> 0,
     summary |-> None, category |-> None, processed_count |-> 0,
     logged |-> None, error |-> FALSE, returned |-> FALSE, value |-> None,
     pre |-> <<>>, attempted |-> {}, raised |-> {}, persisted |-> {},
     classified |-> {}, calls |-> 0, slept |-> FALSE, writes |-> {}]

\* overlap: the call began while another save_jobs_to_db call was running
IdleRun ==
    [pc |-> "idle", left |-> 0, job |-> None, inserted |-> 0, skipped |-> 0,
     overlap |-> FALSE]

FnIdle ==
    [phase |-> "idle", title |-> <<>>, description |-> <<>>, key |-> None,
     response |-> NotCalled, category |-> None, summary |-> None]

Key(j) == <<j.university, j.url>>

Init ==
    /\ jobs = <<>>
    /\ next_id = 1
    /\ passes = [p \in AllPasses |-> IdlePass]
    /\ runs = [r \in AllRuns |-> IdleRun]
    /\ fn = FnIdle

\* --------------------------------------------------- server.py create_job

create_job(job) ==
    /\ Len(jobs) < MaxJobs
    /\ jobs' = Append(jobs, Job(next_id, job.title, job.university, job.description,
                                job.url, job.category, job.summary, TRUE))
    /\ next_id' = next_id + 1
    /\ UNCHANGED <<passes, runs, fn>>

\* ------------------------------------------- scraper.py save_jobs_to_db

\* (variant: the lookup finds nothing)
find_one_nothing(url, university) == None

\* (variant: the lookup matches on the url alone)
find_one_by_url(url, university) ==
    LET hits == {i \in 1..Len(jobs) : jobs[i].url = url}
    IN  IF hits = {} THEN None
        ELSE Some(jobs[CHOOSE i \in hits : \A h \in hits : i <= h])

\* db.jobs.find_one({"url": ..., "university": ...})
find_one(url, university) ==
    LET hits == {i \in 1..Len(jobs) :
                    jobs[i].url = url /\ jobs[i].university = university}
    IN  IF hits = {} THEN None
        ELSE Some(jobs[CHOOSE i \in hits : \A h \in hits : i <= h])

\* one more candidate dealt with: the loop goes on or the call returns
NextCandidate(run) ==
    IF run.left > 1
    THEN [run EXCEPT !.pc = "find", !.left = @ - 1]
    ELSE [run EXCEPT !.pc = "done", !.left = 0]

\* the call, with n candidates; "if not jobs: return"
StartRun(r, n) ==
    /\ runs[r].pc = "idle"
    /\ runs' = [runs EXCEPT ![r] =
                  IF n = 0 THEN [IdleRun EXCEPT !.pc = "done"]
                  ELSE [IdleRun EXCEPT
                          !.pc = "find", !.left = n,
                          !.overlap = \E o \in AllRuns \ {r} :
                                         runs[o].pc \notin {"idle", "done"}]]
    /\ UNCHANGED <<jobs, next_id, passes, fn>>

\* (variant: a duplicate ends the call)
Find_duplicate_ends(r, job) ==
    /\ runs[r].pc = "find"
    /\ LET existing == find_one(job.url, job.university)
       IN  IF existing = None
           THEN /\ Len(jobs) < MaxJobs
                /\ runs' = [runs EXCEPT ![r].pc = "insert", ![r].job = Some(job)]
           ELSE /\ runs' = [runs EXCEPT ![r] =
                     [runs[r] EXCEPT !.pc = "done", !.left = 0, !.job = Some(job),
                                     !.skipped = @ + 1]]
    /\ UNCHANGED <<jobs, next_id, passes, fn>>

\* the loop takes candidate job and awaits find_one; a duplicate is skipped
Find(r, job) ==
    /\ runs[r].pc = "find"
    /\ LET existing == find_one(job.url, job.university)
       IN  IF existing = None
           THEN /\ Len(jobs) < MaxJobs
                /\ runs' = [runs EXCEPT ![r].pc = "insert", ![r].job = Some(job)]
           ELSE /\ runs' = [runs EXCEPT ![r] =
                     NextCandidate([runs[r] EXCEPT !.job = Some(job),
                                                   !.skipped = @ + 1])]
    /\ UNCHANGED <<jobs, next_id, passes, fn>>

\* job["_id"] = job["id"]; await insert_one(job)
Insert(r) ==
    /\ runs[r].pc = "insert"
    /\ Len(jobs) < MaxJobs
    /\ LET job == runs[r].job[1]
       IN  /\ jobs' = Append(jobs, Job(next_id, job.title, job.university,
                                       job.description, job.url, job.category,
                                       job.summary, job.is_active))
    /\ next_id' = next_id + 1
    /\ runs' = [runs EXCEPT ![r] = NextCandidate([runs[r] EXCEPT !.inserted = @ + 1])]
    /\ UNCHANGED <<passes, fn>>

\* run_scraping returns and the script ends
ExitRun(r) ==
    /\ runs[r].pc = "done"
    /\ runs' = [runs EXCEPT ![r] = IdleRun]
    /\ UNCHANGED <<jobs, next_id, passes, fn>>

\* --------------------------------------- init_data.py save_jobs_to_db

\* the call, with n jobs; "if not jobs: return"
StartInitialize(r, n) ==
    /\ runs[r].pc = "idle"
    /\ next_id <= MaxIds
    /\ runs' = [runs EXCEPT ![r] =
                  IF n = 0 THEN [IdleRun EXCEPT !.pc = "done"]
                  ELSE [IdleRun EXCEPT !.pc = "delete", !.left = n]]
    /\ UNCHANGED <<jobs, next_id, passes, fn>>

\* (variant: existing postings are kept)
delete_many_nothing(docs) == docs

\* await self.db.jobs.delete_many({})
delete_many(docs) == <<>>

\* "Clear existing jobs first"
DeleteMany(r) ==
    /\ runs[r].pc = "delete"
    /\ jobs' = delete_many(jobs)
    /\ runs' = [runs EXCEPT ![r].pc = "insert"]
    /\ UNCHANGED <<next_id, passes, fn>>

\* "Insert new jobs": job["_id"] = job["id"]; await insert_one(job), without
\* a lookup; the url of each created job holds a fresh uuid
InsertCreated(r, job) ==
    /\ runs[r].pc = "insert"
    /\ Len(jobs) < MaxJobs
    /\ find_one(job.url, job.university) = None
    /\ jobs' = Append(jobs, Job(next_id, job.title, job.university,
                                job.description, job.url, job.category,
                                job.summary, job.is_active))
    /\ next_id' = next_id + 1
    /\ runs' = [runs EXCEPT ![r] =
                  [runs[r] EXCEPT !.pc = IF runs[r].left > 1 THEN "insert" ELSE "done",
                                  !.left = @ - 1,
                                  !.job = Some(job),
                                  !.inserted = @ + 1]]
    /\ UNCHANGED <<passes, fn>>

\* initialize_data returns and the script ends
ExitInitialize(r) ==
    /\ runs[r].pc = "done"
    /\ runs' = [runs EXCEPT ![r] = IdleRun]
    /\ UNCHANGED <<jobs, next_id, passes, fn>>

\* ------------------------------ ai_processor.py process_unprocessed_jobs

\* (variant: the query does not look at the summary)
find_unprocessed_any_summary(docs) ==
    Slice(SelectSeq(docs, LAMBDA j : j.is_active = TRUE), BatchLimit)

\* (variant: the query has no limit)
find_unprocessed_unlimited(docs) ==
    SelectSeq(docs, LAMBDA j : j.is_active = TRUE /\ j.summary = None)

\* find({"is_active": True, "$or": [{"summary": None},
\*       {"summary": {"$exists": False}}]}).limit(10)
find_unprocessed(docs) ==
    Slice(SelectSeq(docs, LAMBDA j : j.is_active = TRUE /\ j.summary = None),
          BatchLimit)

\* the loop body is over for one record: the cursor yields the next one, or
\* the loop ends, the count is logged and the coroutine returns (nothing)
AfterRecord(pass) ==
    IF pass.idx < Len(pass.cursor)
    THEN [pass EXCEPT !.pc = "summarize", !.idx = @ + 1,
                      !.summary = None, !.category = None]
    ELSE [pass EXCEPT !.pc = "done", !.summary = None, !.category = None,
                      !.logged = Some(pass.processed_count),
                      !.returned = TRUE, !.value = None]

\* AIJobProcessor() and the first fetch of the cursor
StartPass(p, key) ==
    /\ passes[p].pc = "idle"
    /\ passes' = [passes EXCEPT ![p] =
                    AfterRecord([IdlePass EXCEPT !.key = key,
                                                 !.cursor = find_unprocessed(jobs),
                                                 !.pre = jobs])]
    /\ UNCHANGED <<jobs, next_id, runs, fn>>

\* the query raises: the outer handler logs the error, no count is logged
StartPassFails(p, key) ==
    /\ passes[p].pc = "idle"
    /\ passes' = [passes EXCEPT ![p] =
                    [IdlePass EXCEPT !.pc = "done", !.key = key, !.pre = jobs,
                                     !.error = TRUE,
                                     !.returned = TRUE, !.value = None]]
    /\ UNCHANGED <<jobs, next_id, runs, fn>>

CurrentJob(pass) == pass.cursor[pass.idx]

\* summary = await self.summarize_job_description(...)
Summarize(p, response) ==
    LET pass == passes[p]
        job == CurrentJob(pass)
        enabled == api_enabled(pass.key)
    IN  /\ pass.pc = "summarize"
        /\ job.description # Absent
        /\ enabled <=> response # NotCalled
        /\ passes' = [passes EXCEPT ![p] =
              [pass EXCEPT
                 !.pc = "categorize",
                 !.slept = FALSE,
                 !.summary = Some(summarize_job_description(
                                enabled, response, job.title, job.description,
                                job.university)),
                 !.attempted = @ \cup {job.id},
                 !.calls = IF enabled THEN @ + 1 ELSE @]]
        /\ UNCHANGED <<jobs, next_id, runs, fn>>

\* job["description"] raises KeyError: the inner handler logs the error and
\* the loop goes on
ReadRaises(p) ==
    LET pass == passes[p]
        job == CurrentJob(pass)
    IN  /\ pass.pc = "summarize"
        /\ job.description = Absent
        /\ passes' = [passes EXCEPT ![p] =
              AfterRecord([pass EXCEPT !.attempted = @ \cup {job.id},
                                       !.raised = @ \cup {job.id}])]
        /\ UNCHANGED <<jobs, next_id, runs, fn>>

\* (variant: every record is classified again)
NeedsCategory_always(job) == TRUE

\* not job.get("category") or job.get("category") == "General"
NeedsCategory(job) ==
    job.category = None \/ job.category = Some("") \/ job.category = Some("General")

\* "Update category if needed"
Categorize(p, response) ==
    LET pass == passes[p]
        job == CurrentJob(pass)
        enabled == api_enabled(pass.key)
        needed == NeedsCategory(job)
    IN  /\ pass.pc = "categorize"
        /\ (needed /\ enabled) <=> response # NotCalled
        /\ passes' = [passes EXCEPT ![p] =
              [pass EXCEPT
                 !.pc = "update",
                 !.category = IF needed
                              THEN Some(categorize_job_with_ai(
                                          enabled, response, job.title,
                                          job.description))
                              ELSE job.category,
                 !.classified = IF needed THEN @ \cup {job.id} ELSE @,
                 !.calls = IF needed /\ enabled THEN @ + 1 ELSE @]]
        /\ UNCHANGED <<jobs, next_id, runs, fn>>

\* (variant: the filter matches every document)
update_one_every_document(docs, id, summary, category) ==
    [i \in 1..Len(docs) |->
        [docs[i] EXCEPT !.summary = summary, !.category = category]]

\* (variant: the summary is set, the category is left to a later write)
update_one_summary_only(docs, id, summary, category) ==
    [i \in 1..Len(docs) |->
        IF docs[i].id = id THEN [docs[i] EXCEPT !.summary = summary] ELSE docs[i]]

\* (variant: the category is set, the summary is not)
update_one_category_only(docs, id, summary, category) ==
    [i \in 1..Len(docs) |->
        IF docs[i].id = id THEN [docs[i] EXCEPT !.category = category] ELSE docs[i]]

\* update_one({"_id": id}, {"$set": {"summary": ..., "category": ...}})
update_one(docs, id, summary, category) ==
    [i \in 1..Len(docs) |->
        IF docs[i].id = id
        THEN [docs[i] EXCEPT !.summary = summary, !.category = category]
        ELSE docs[i]]

\* (variant: the update is started and not awaited; the loop goes on)
Update_detached(p) ==
    LET pass == passes[p]
    IN  /\ pass.pc = "update"
        /\ passes' = [passes EXCEPT ![p] =
              AfterRecord([pass EXCEPT !.processed_count = @ + 1])]
        /\ UNCHANGED <<jobs, next_id, runs, fn>>

\* the update succeeds; processed_count += 1
Update(p) ==
    LET pass == passes[p]
        job == CurrentJob(pass)
    IN  /\ pass.pc = "update"
        /\ jobs' = update_one(jobs, job.id, pass.summary, pass.category)
        /\ passes' = [passes EXCEPT ![p] =
              [pass EXCEPT !.pc = "sleep",
                           !.processed_count = @ + 1,
                           !.persisted = @ \cup {job.id},
                           !.writes = @ \cup {<<job.id, pass.summary,
                                                pass.category>>}]]
        /\ UNCHANGED <<next_id, runs, fn>>

\* (variant: the update that raises has already written the summary)
UpdateRaises_torn(p) ==
    LET pass == passes[p]
        job == CurrentJob(pass)
    IN  /\ pass.pc = "update"
        /\ jobs' = update_one_summary_only(jobs, job.id, pass.summary, pass.category)
        /\ passes' = [passes EXCEPT ![p] =
              AfterRecord([pass EXCEPT !.raised = @ \cup {job.id}])]
        /\ UNCHANGED <<next_id, runs, fn>>

\* (variant: no inner handler, the exception ends the loop)
UpdateRaises_aborts(p) ==
    LET pass == passes[p]
        job == CurrentJob(pass)
    IN  /\ pass.pc = "update"
        /\ passes' = [passes EXCEPT ![p] =
              [pass EXCEPT !.pc = "done", !.raised = @ \cup {job.id},
                           !.error = TRUE, !.returned = TRUE, !.value = None]]
        /\ UNCHANGED <<jobs, next_id, runs, fn>>

\* (variant: the count is incremented before the update is awaited)
UpdateRaises_counted(p) ==
    LET pass == passes[p]
        job == CurrentJob(pass)
    IN  /\ pass.pc = "update"
        /\ passes' = [passes EXCEPT ![p] =
              AfterRecord([pass EXCEPT !.raised = @ \cup {job.id},
                                       !.processed_count = @ + 1])]
        /\ UNCHANGED <<jobs, next_id, runs, fn>>

\* (variant: the handler processes the same record again)
UpdateRaises_retry(p) ==
    LET pass == passes[p]
        job == CurrentJob(pass)
    IN  /\ pass.pc = "update"
        /\ passes' = [passes EXCEPT ![p] =
              [pass EXCEPT !.pc = "summarize", !.raised = @ \cup {job.id},
                           !.summary = None, !.category = None]]
        /\ UNCHANGED <<jobs, next_id, runs, fn>>

\* the update raises: the inner handler logs the error and the loop goes on
UpdateRaises(p) ==
    LET pass == passes[p]
        job == CurrentJob(pass)
    IN  /\ pass.pc = "update"
        /\ passes' = [passes EXCEPT ![p] =
              AfterRecord([pass EXCEPT !.raised = @ \cup {job.id}])]
        /\ UNCHANGED <<jobs, next_id, runs, fn>>

\* await asyncio.sleep(1)
Sleep(p) ==
    /\ passes[p].pc = "sleep"
    /\ passes' = [passes EXCEPT ![p] = AfterRecord([passes[p] EXCEPT !.slept = TRUE])]
    /\ UNCHANGED <<jobs, next_id, runs, fn>>

\* finally: self.client.close(); main() returns and the script ends
ExitPass(p) ==
    /\ passes[p].pc \in {"done", "stopped"}
    /\ passes' = [passes EXCEPT ![p] = IdlePass]
    /\ UNCHANGED <<jobs, next_id, runs, fn>>

\* the process is stopped while the pass is running (shutdown, a signal):
\* nothing more is computed, written or logged
Interrupt(p) ==
    /\ passes[p].pc \in {"summarize", "categorize", "update", "sleep"}
    /\ passes' = [passes EXCEPT ![p].pc = "stopped"]
    /\ UNCHANGED <<jobs, next_id, runs, fn>>

\* ------------------------------------------------------- specifications

\* no script is running
Quiet ==
    /\ \A p \in AllPasses : passes[p].pc = "idle"
    /\ \A r \in AllRuns : runs[r].pc = "idle"

\* the processor's key in the small specifications
SpecKeys == {KeyUnset, KeyReal}

ApiStep == Quiet /\ \E job \in ApiRequests : create_job(job)

IngestStep ==
    \E r \in Runs :
        \/ Quiet /\ \E n \in 0..MaxBatch : StartRun(r, n)
        \/ \E job \in Candidates : Find(r, job)
        \/ Insert(r)
        \/ ExitRun(r)

InitializeStep ==
    \E r \in Initializers :
        \/ Quiet /\ \E n \in 0..MaxBatch : StartInitialize(r, n)
        \/ DeleteMany(r)
        \/ \E job \in Candidates : InsertCreated(r, job)
        \/ ExitInitialize(r)

\* two scraper processes, each making one save_jobs_to_db call, in any
\* interleaving of their steps
RaceStep ==
    \E r \in RaceRuns :
        \/ \E n \in 0..MaxBatch : StartRun(r, n)
        \/ \E job \in Candidates : Find(r, job)
        \/ Insert(r)

PassStart(keys) ==
    \E p \in Passes :
        \/ Quiet /\ \E key \in keys : StartPass(p, key)
        \/ Quiet /\ \E key \in keys : StartPassFails(p, key)

PassBody(summaryResponses, categoryResponses) ==
    \E p \in Passes :
        \/ \E response \in summaryResponses \cup {NotCalled} : Summarize(p, response)
        \/ \E response \in categoryResponses \cup {NotCalled} : Categorize(p, response)
        \/ Update(p)
        \/ UpdateRaises(p)
        \/ Sleep(p)

PassStep(keys, summaryResponses, categoryResponses) ==
    \/ PassStart(keys)
    \/ PassBody(summaryResponses, categoryResponses)
    \/ \E p \in Passes : ExitPass(p)

\* The server's requests, the scraper and the processor on one storage, one
\* operation after the other.
Next ==
    \/ ApiStep
    \/ IngestStep
    \/ PassStep(SpecKeys, SummaryResponses, CategoryResponses)

Spec == Init /\ [][Next]_vars

\* The scraper and the processor alone.
NextIngest ==
    \/ IngestStep
    \/ PassStep(SpecKeys, SummaryResponses, CategoryResponses)

SpecIngest == Init /\ [][NextIngest]_vars

\* The external service answers every POST with status 500.
NextDown ==
    \/ ApiStep
    \/ IngestStep
    \/ PassStep({KeyReal}, {Http500}, {Http500})

SpecDown == Init /\ [][NextDown]_vars

\* No credential is configured.
DisabledKeys == {KeyUnset, KeyEmpty, KeyPlaceholder}

NextNoKey ==
    \/ ApiStep
    \/ IngestStep
    \/ PassStep(DisabledKeys, SummaryResponses, CategoryResponses)

SpecNoKey == Init /\ [][NextNoKey]_vars

\* A pass may be stopped between any two of its steps.
NextInterrupt ==
    \/ Next
    \/ \E p \in Passes : Interrupt(p)

SpecInterrupt == Init /\ [][NextInterrupt]_vars

\* The initializer is run on the same storage.
NextInitialize ==
    \/ Next
    \/ InitializeStep

SpecInitialize == Init /\ [][NextInitialize]_vars

\* Two scraper processes at the same time.
SpecRace == Init /\ [][RaceStep]_vars

\* The scraper on a storage that holds a posting, active or deactivated by
\* whoever maintains the storage.
InitDedup ==
    /\ \E is_active \in BOOLEAN : \E url \in Urls :
          jobs = <<Job(1, WPostdoc, "UCL", DescThree, url, Some("Teaching"),
                       None, is_active)>>
    /\ next_id = 2
    /\ passes = [p \in AllPasses |-> IdlePass]
    /\ runs = [r \in AllRuns |-> IdleRun]
    /\ fn = FnIdle

SpecDedup == InitDedup /\ [][IngestStep]_vars

\* Two processor processes at the same time, each making one pass, on a
\* storage of two postings without summary.
ConcurrentStored ==
    <<Job(1, WPostdoc, "UCL", WStaff, "/jobs/a", Some("General"), None, TRUE),
      Job(2, WLecturer, "KCL", DescThree, "/jobs/b", Some("Teaching"), None, TRUE)>>

InitConcurrent ==
    /\ jobs = ConcurrentStored
    /\ next_id = 3
    /\ passes = [p \in AllPasses |-> IdlePass]
    /\ runs = [r \in AllRuns |-> IdleRun]
    /\ fn = FnIdle

ConcurrentStep ==
    \E p \in AllPasses :
        \/ \E key \in SpecKeys : StartPass(p, key)
        \/ \E response \in {Ok(TextAI), Http500, NotCalled} : Summarize(p, response)
        \/ \E response \in {Ok(CategoryText["Technical"]), Http500, NotCalled} :
              Categorize(p, response)
        \/ Update(p)
        \/ UpdateRaises(p)
        \/ Sleep(p)

SpecConcurrent == InitConcurrent /\ [][ConcurrentStep]_vars

\* ---- a storage larger than one batch, and the processor alone

\* Postings of the larger storage.
BatchStored == 12

BatchUrls ==
    <<"/jobs/1", "/jobs/2", "/jobs/3", "/jobs/4", "/jobs/5", "/jobs/6", "/jobs/7",
      "/jobs/8", "/jobs/9", "/jobs/10", "/jobs/11", "/jobs/12", "/jobs/13",
      "/jobs/14">>

\* n postings as the scraper and the server leave them; those of summarized
\* were created with a summary, those of inactive have been deactivated by
\* whoever maintains the storage
Stored(n, summarized, inactive) ==
    [i \in 1..n |->
        Job(i, WPostdoc, "UCL", DescThree, BatchUrls[i],
            IF i % 2 = 0 THEN Some("General") ELSE Some("Teaching"),
            IF i \in summarized THEN Some(Given) ELSE None,
            i \notin inactive)]

InitBatch ==
    /\ \E n \in {BatchLimit, BatchStored} :
       \E summarized \in {{}, {1, 2, 3}, {2, 5, 9}} :
       \E inactive \in {{}, {4}} :
          /\ jobs = Stored(n, summarized, inactive)
          /\ next_id = n + 1
    /\ passes = [p \in AllPasses |-> IdlePass]
    /\ runs = [r \in AllRuns |-> IdleRun]
    /\ fn = FnIdle

\* one call of the processor, without a key
NextBatch == PassStart({KeyUnset}) \/ PassBody({}, {})

SpecBatch == InitBatch /\ [][NextBatch]_vars

\* ---- passes run again and again on a storage of one posting more than a
\* batch, the first failing of them stored without description

ProgressStored(failing) ==
    [i \in 1..(BatchLimit + 1) |->
        Job(i, WPostdoc, "UCL", IF i <= failing THEN Absent ELSE DescThree,
            BatchUrls[i], Some("Teaching"), None, TRUE)]

InitProgress ==
    /\ \E failing \in {0, 1, BatchLimit - 1, BatchLimit} :
          jobs = ProgressStored(failing)
    /\ next_id = BatchLimit + 2
    /\ passes = [p \in AllPasses |-> IdlePass]
    /\ runs = [r \in AllRuns |-> IdleRun]
    /\ fn = FnIdle

NextProgress ==
    \E p \in Passes :
        \/ Quiet /\ StartPass(p, KeyUnset)
        \/ ReadRaises(p)
        \/ Summarize(p, NotCalled)
        \/ Categorize(p, NotCalled)
        \/ Update(p)
        \/ Sleep(p)
        \/ ExitPass(p)

\* the scheduler starts a pass again and again, and a pass takes its steps
SpecProgress == InitProgress /\ [][NextProgress]_vars /\ WF_vars(NextProgress)

\* ---- the classifier and the summarizer applied to one input

LongSentence == [i \in 1..500 |-> "x"]

Words ==
    {WPostdoc, WLecturer, WPhD, WFellow, WIntern, WEngineer, WOfficer, WStaff}

WPostdocUpper == <<"P", "O", "S", "T", "D", "O", "C">>

Titles == Words \cup {<<>>, TitlePostdoctoral, WPostdocUpper}

Descriptions ==
    Words \cup {<<>>, DescRobotics, DescThree, LongSentence}
    \cup {a \o PeriodSpace \o b : a \in Words, b \in Words}

InitPure ==
    /\ jobs = <<>>
    /\ next_id = 1
    /\ passes = [p \in AllPasses |-> IdlePass]
    /\ runs = [r \in AllRuns |-> IdleRun]
    /\ fn \in {[FnIdle EXCEPT !.phase = "input", !.title = t, !.description = d]
                  : t \in Titles, d \in Descriptions}

ApplyClassifier(key, response) ==
    /\ fn.phase = "input"
    /\ api_enabled(key) <=> response # NotCalled
    /\ fn' = [fn EXCEPT !.phase = "classified", !.key = key, !.response = response,
                        !.category = Some(categorize_job_with_ai(
                                            api_enabled(key), response,
                                            fn.title, fn.description))]
    /\ UNCHANGED <<jobs, next_id, passes, runs>>

ApplySummarizer(key, response) ==
    /\ fn.phase = "input"
    /\ api_enabled(key) <=> response # NotCalled
    /\ fn' = [fn EXCEPT !.phase = "summarized", !.key = key, !.response = response,
                        !.summary = Some(summarize_job_description(
                                           api_enabled(key), response,
                                           fn.title, fn.description, "UCL"))]
    /\ UNCHANGED <<jobs, next_id, passes, runs>>

NextPure ==
    \/ \E key \in ApiKeys :
       \E response \in CategoryResponses \cup {NotCalled} :
          ApplyClassifier(key, response)
    \/ \E key \in ApiKeys :
       \E response \in SummaryResponses \cup {NotCalled} :
          ApplySummarizer(key, response)

SpecPure == InitPure /\ [][NextPure]_vars

\* ================================================================ claims

Ids(docs) == {docs[i].id : i \in 1..Len(docs)}

\* the document with identifier id (identifiers are unique)
Doc(docs, id) == docs[CHOOSE i \in 1..Len(docs) : docs[i].id = id]

\* the active postings without a summary, all of them
Unsummarized(docs) ==
    {docs[i].id : i \in {k \in 1..Len(docs) :
                            docs[k].is_active /\ docs[k].summary = None}}

ActiveWithKey(docs, k) ==
    {i \in 1..Len(docs) : docs[i].is_active /\ Key(docs[i]) = k}

\* ---- C1

\* C1 as stated: when a pass has completed, a second pass started at once on
\* the resulting storage selects zero records.
C1_SecondPassSelectsNothing ==
    \A p \in Passes :
        passes[p].pc = "done" /\ ~ passes[p].error
            => find_unprocessed(jobs) = <<>>

\* C1, amended: when a pass has completed, a second pass started at once on
\* the resulting storage selects no record the first pass persisted (it
\* selects only records the first pass did not reach or whose processing
\* raised); when the first pass selected every unsummarized active posting and
\* none of them raised, the second pass selects zero records; and a pass that
\* selected zero records has changed no posting and made no external call.
C1_CompletedWorkNotRedone ==
    \A p \in Passes :
        /\ passes[p].pc = "done" /\ ~ passes[p].error =>
              /\ Ids(find_unprocessed(jobs)) \cap passes[p].persisted = {}
              /\ (/\ passes[p].raised = {}
                  /\ Ids(passes[p].cursor) = Unsummarized(passes[p].pre))
                    => find_unprocessed(jobs) = <<>>
        /\ passes[p].cursor = <<>> =>
              /\ passes[p].calls = 0
              /\ passes[p].persisted = {}
              /\ passes[p].pc \in {"idle", "done"}

\* a pass has completed after persisting every record it selected, with the
\* AI path on, and a second pass would select nothing
C1_Witness ==
    \E p \in Passes :
        /\ passes[p].pc = "done" /\ ~ passes[p].error
        /\ passes[p].persisted # {} /\ passes[p].raised = {}
        /\ passes[p].calls > 0
        /\ Ids(passes[p].cursor) = Unsummarized(passes[p].pre)
        /\ find_unprocessed(jobs) = <<>>

\* ---- C2

\* C2: whenever save_jobs_to_db has dealt with a candidate (inserted it, or
\* skipped it as a duplicate), storage holds exactly one active posting with
\* the candidate's (university, url); so two candidates with the same key,
\* in one call or in two successive calls, leave exactly one.
C2_OneActivePerOfferedKey ==
    [][\A r \in Runs :
          (/\ runs[r].pc \in {"find", "insert"}
           /\ runs'[r].pc \in {"find", "done"}
           /\ runs'[r] # runs[r])
            => Cardinality(ActiveWithKey(jobs', Key(runs'[r].job[1]))) = 1]_vars

\* one call has inserted a candidate and skipped a second one with the same
\* key: storage holds just the one posting
C2_Witness ==
    \E r \in Runs :
        /\ runs[r].pc = "done"
        /\ runs[r].inserted = 1 /\ runs[r].skipped = 1
        /\ Len(jobs) = 1
        /\ Cardinality(ActiveWithKey(jobs, Key(runs[r].job[1]))) = 1

\* ---- C3

\* C3 as stated: no two active postings have the same (university, url).
C3_UniqueActiveKey ==
    \A i \in 1..Len(jobs) : \A j \in 1..Len(jobs) :
        (i # j /\ jobs[i].is_active /\ jobs[j].is_active)
            => Key(jobs[i]) # Key(jobs[j])

\* ---- C4

Taxonomy == valid_categories \cup {"General"}

\* the classifier or summarizer ran without the service: no key is
\* configured, or the call failed
ServiceUnavailable ==
    ~ api_enabled(fn.key) \/ fn.response \in FailingResponses

\* C4 as stated: without the service, the classifier returns a taxonomy value
\* and the summarizer returns a non-empty string, for every input.
C4_FallbackTotality ==
    /\ (fn.phase = "classified" /\ ServiceUnavailable)
          => fn.category[1] \in Taxonomy
    /\ (fn.phase = "summarized" /\ ServiceUnavailable)
          => fn.summary[1] # <<>>

\* ---- C5

PrecedenceOrder ==
    <<"Research", "Teaching", "PhD", "Fellowship", "Internship", "Technical",
      "Administrative">>

KeywordGroup(category) ==
    CASE category = "Research" -> ResearchKeywords
      [] category = "Teaching" -> TeachingKeywords
      [] category = "PhD" -> PhDKeywords
      [] category = "Fellowship" -> FellowshipKeywords
      [] category = "Internship" -> InternshipKeywords
      [] category = "Technical" -> TechnicalKeywords
      [] category = "Administrative" -> AdministrativeKeywords

\* the input of the application, as the classifier reads it
FnText == lower(fn.title) \o <<" ">> \o lower(fn.description)

FirstInOrder(text) ==
    LET matching == {k \in 1..Len(PrecedenceOrder) :
                        AnyWordIn(KeywordGroup(PrecedenceOrder[k]), text)}
    IN  IF matching = {} THEN "General"
        ELSE PrecedenceOrder[CHOOSE k \in matching : \A m \in matching : k <= m]

\* C5: the rule-based classifier returns the first category of the order
\* Research, Teaching, PhD, Fellowship, Internship, Technical, Administrative
\* with a keyword in the lower-cased text, General when there is none; a
\* text with "postdoc" and "lecturer" gives Research.
C5_CategoryPrecedence ==
    (fn.phase = "classified" /\ ~ api_enabled(fn.key)) =>
        /\ fn.category = Some(FirstInOrder(FnText))
        /\ (Contains(FnText, ResearchKeywords[2]) /\ Contains(FnText, TeachingKeywords[1]))
              => fn.category = Some("Research")

\* the rule-based classifier has answered Research for a text (with capital
\* letters) that holds both "postdoc" and "lecturer"
C5_Witness ==
    /\ fn.phase = "classified" /\ ~ api_enabled(fn.key)
    /\ fn.title = WPostdoc
    /\ Contains(FnText, ResearchKeywords[2])
    /\ Contains(FnText, TeachingKeywords[1])
    /\ fn.category = Some("Research")

\* ---- C6

\* C6: a pass that has ended has attempted every record it selected, also
\* when the processing of some of them raised; and while it runs, every
\* record before the current one has been attempted.
C6_FailureIsolation ==
    \A p \in Passes :
        /\ passes[p].pc = "done" => passes[p].attempted = Ids(passes[p].cursor)
        /\ passes[p].pc \notin {"idle", "done"} =>
              passes[p].attempted \cup {CurrentJob(passes[p]).id}
                  = {passes[p].cursor[i].id : i \in 1..passes[p].idx}
        /\ passes[p].raised \subseteq passes[p].attempted

\* the first record of a pass raised and the second was persisted
C6_Witness ==
    \E p \in Passes :
        /\ passes[p].pc = "done"
        /\ Len(passes[p].cursor) >= 2
        /\ passes[p].cursor[1].id \in passes[p].raised
        /\ passes[p].cursor[2].id \in passes[p].persisted

\* ---- C7

\* a category that is there and is not "General"
Specific(category) == category # None /\ category # Some("General")

\* C7 as stated: a processed posting whose category was present and not the
\* sentinel keeps it, and the classifier is called only for postings whose
\* category was absent or the sentinel.
C7_CategoryPreserved ==
    \A p \in Passes :
        /\ \A id \in passes[p].persisted :
              Specific(Doc(passes[p].pre, id).category)
                  => Doc(jobs, id).category = Doc(passes[p].pre, id).category
        /\ \A id \in passes[p].classified :
              ~ Specific(Doc(passes[p].pre, id).category)

\* C7, amended: a processed posting whose category was present, not the empty
\* string and not the sentinel keeps it, and the classifier is called only for
\* postings whose category was absent, the empty string or the sentinel.
C7_NonEmptyCategoryPreserved ==
    \A p \in Passes :
        /\ \A id \in passes[p].persisted :
              (/\ Specific(Doc(passes[p].pre, id).category)
               /\ Doc(passes[p].pre, id).category # Some(""))
                  => Doc(jobs, id).category = Doc(passes[p].pre, id).category
        /\ \A id \in passes[p].classified :
              \/ ~ Specific(Doc(passes[p].pre, id).category)
              \/ Doc(passes[p].pre, id).category = Some("")

\* a pass with the AI path on has persisted a posting of category "Other"
\* and one of category "General": the first kept it, the second was classified
C7_Witness ==
    \E p \in Passes : \E a, b \in passes[p].persisted :
        /\ api_enabled(passes[p].key)
        /\ Doc(passes[p].pre, a).category = Some("Other")
        /\ Doc(jobs, a).category = Some("Other")
        /\ a \notin passes[p].classified
        /\ Doc(passes[p].pre, b).category = Some("General")
        /\ b \in passes[p].classified

\* ---- C8

\* the pass has fetched its selection
Selected(p) == passes[p].pc # "idle" /\ ~ passes[p].error

\* C8: a pass selects only postings that are active and have no summary, at
\* most 10 of them (the batch size of the code) and as many as there are up
\* to 10; with 10 postings of which 3 have a summary, it processes exactly
\* the 7 others.
C8_Selection ==
    \A p \in Passes : Selected(p) =>
        LET pass == passes[p]
            others == {pass.pre[i].id : i \in {k \in 1..Len(pass.pre) :
                                                  pass.pre[k].summary = None}}
        IN  /\ \A i \in 1..Len(pass.cursor) :
                  /\ pass.cursor[i] = Doc(pass.pre, pass.cursor[i].id)
                  /\ pass.cursor[i].is_active
                  /\ pass.cursor[i].summary = None
            /\ \A i, j \in 1..Len(pass.cursor) :
                  i # j => pass.cursor[i].id # pass.cursor[j].id
            /\ Len(pass.cursor) <= BatchLimit
            /\ Len(pass.cursor) = Min(BatchLimit, Cardinality(Unsummarized(pass.pre)))
            /\ (/\ pass.pc = "done"
                /\ Len(pass.pre) = 10
                /\ \A i \in 1..10 : pass.pre[i].is_active
                /\ Cardinality(others) = 7)
                  => /\ pass.attempted = others
                     /\ pass.raised = {} => pass.persisted = others

\* a pass over 10 active postings, 3 of them with a summary, has ended with
\* the 7 others processed
C8_Witness ==
    \E p \in Passes :
        /\ passes[p].pc = "done" /\ ~ passes[p].error
        /\ Len(passes[p].pre) = 10
        /\ \A i \in 1..10 : passes[p].pre[i].is_active
        /\ Cardinality({i \in 1..10 : passes[p].pre[i].summary # None}) = 3
        /\ Cardinality(passes[p].persisted) = 7
        /\ passes[p].processed_count = 7

\* ---- C9

\* C9 as stated: the pass gives its caller an outcome and a count, the count
\* being the number of records persisted in the pass.
C9_ReportsToCaller ==
    \A p \in Passes : passes[p].pc = "done" =>
        /\ passes[p].returned
        /\ passes[p].value # None
        /\ passes[p].value[1].outcome \in {"success", "failure"}
        /\ passes[p].value[1].count = Cardinality(passes[p].persisted)

\* C9, amended: the pass gives its caller nothing (it returns None whether it
\* completed or failed); a pass that completes logs a count equal to the number
\* of selected records whose update completed, records whose processing raised
\* are not counted, and a pass whose query failed logs no count.
C9_LoggedCount ==
    \A p \in Passes :
        /\ passes[p].processed_count = Cardinality(passes[p].persisted)
        /\ passes[p].persisted \cap passes[p].raised = {}
        /\ passes[p].pc = "done" =>
              /\ passes[p].returned /\ passes[p].value = None
              /\ passes[p].error => passes[p].logged = None
              /\ ~ passes[p].error =>
                    /\ passes[p].logged = Some(Cardinality(passes[p].persisted))
                    /\ passes[p].persisted = Ids(passes[p].cursor) \ passes[p].raised

\* a pass has ended with one record persisted and one raised, and logged 1
C9_Witness ==
    \E p \in Passes :
        /\ passes[p].pc = "done" /\ ~ passes[p].error
        /\ Cardinality(passes[p].persisted) = 1
        /\ Cardinality(passes[p].raised) = 1
        /\ passes[p].logged = Some(1)
        /\ passes[p].value = None

\* ---- C10

\* C10 (every call of the pass is answered with status 500): every record
\* the pass persists carries the rule-based summary of its description and,
\* when the pass classified it, the rule-based category; every selected
\* record is attempted, and the count is the number of selected records less
\* those whose update raised, so the full number when storage works.
C10_DegradesToRules ==
    \A p \in Passes :
        /\ \A id \in passes[p].persisted :
              LET doc == Doc(jobs, id)
              IN  /\ doc.summary = Some(generate_basic_summary(doc.title, doc.description))
                  /\ id \in passes[p].classified =>
                        doc.category = Some(basic_categorization(doc.title, doc.description))
                  /\ id \notin passes[p].classified =>
                        doc.category = Doc(passes[p].pre, id).category
        /\ (passes[p].pc = "done" /\ ~ passes[p].error) =>
              /\ passes[p].attempted = Ids(passes[p].cursor)
              /\ passes[p].processed_count
                    = Len(passes[p].cursor) - Cardinality(passes[p].raised)
              /\ passes[p].raised = {} =>
                    /\ passes[p].processed_count = Len(passes[p].cursor)
                    /\ passes[p].persisted = Ids(passes[p].cursor)

\* a pass with a key has ended: both of its records were summarized and one
\* classified, through calls that were all answered 500, and both are counted
C10_Witness ==
    \E p \in Passes :
        /\ passes[p].pc = "done" /\ ~ passes[p].error
        /\ api_enabled(passes[p].key)
        /\ Len(passes[p].cursor) = 2
        /\ passes[p].calls = 3
        /\ passes[p].classified # {}
        /\ passes[p].processed_count = 2
        /\ \E id \in passes[p].persisted :
              Doc(jobs, id).summary # Some(Doc(jobs, id).description)

\* ---- C11

\* C11: a pass made with no credential (key unset, empty or the placeholder)
\* makes no call to the service; its summarizer and classifier steps give the
\* rule-based summary and category of the record at hand, every record it
\* persists carries them, and neither step raises: every selected record
\* reaches the end of the loop body.
C11_ConfigurationAbsence ==
    \A p \in Passes :
        LET pass == passes[p]
        IN  (pass.pc # "idle" /\ pass.key \in DisabledKeys) =>
              /\ pass.calls = 0
              /\ pass.pc \in {"categorize", "update"} =>
                    pass.summary = Some(generate_basic_summary(
                                          CurrentJob(pass).title,
                                          CurrentJob(pass).description))
              /\ (pass.pc = "update" /\ CurrentJob(pass).id \in pass.classified) =>
                    pass.category = Some(basic_categorization(
                                           CurrentJob(pass).title,
                                           CurrentJob(pass).description))
              /\ \A id \in pass.persisted :
                    LET doc == Doc(jobs, id)
                    IN  /\ doc.summary = Some(generate_basic_summary(
                                                doc.title, doc.description))
                        /\ id \in pass.classified =>
                              doc.category = Some(basic_categorization(
                                                    doc.title, doc.description))
              /\ (pass.pc = "done" /\ ~ pass.error) =>
                    pass.attempted = Ids(pass.cursor)

\* a pass whose key is the placeholder has ended after persisting a record
\* it classified, without a call
C11_Witness ==
    \E p \in Passes :
        /\ passes[p].pc = "done" /\ ~ passes[p].error
        /\ passes[p].key = KeyPlaceholder
        /\ passes[p].persisted \cap passes[p].classified # {}
        /\ passes[p].calls = 0

\* ---- C12

\* C12 as stated: every posting's summary is absent or a non-empty text of
\* at most 1000 characters.
C12_SummaryInvariant ==
    \A i \in 1..Len(jobs) :
        \/ jobs[i].summary = None
        \/ /\ Len(jobs[i].summary[1]) >= 1
           /\ Len(jobs[i].summary[1]) <= 1000

\* ---- C13

\* C13 as stated: every posting a pass has processed has a category of the
\* taxonomy.
C13_CategoryInvariant ==
    \A p \in Passes : \A id \in passes[p].persisted :
        /\ Doc(jobs, id).category # None
        /\ Doc(jobs, id).category[1] \in Taxonomy

\* ---- C14

\* the category the rule-based classifier gives the input of the application
FnRule == basic_categorization(fn.title, fn.description)

\* C14: with the AI path on, the classifier returns the service's label when
\* the label (the message content, read without surrounding whitespace) is
\* exactly one of the seven non-General categories; for no response (network
\* failure, timeout), a non-200 status, a malformed body, the label General,
\* a label outside the list or a label in another case, it returns the
\* rule-based category of the same title and description.
C14_LabelValidation ==
    (fn.phase = "classified" /\ api_enabled(fn.key)) =>
        /\ fn.response \in FailingResponses => fn.category = Some(FnRule)
        /\ fn.response \in {Ok(CategoryText["General"]), Ok(LabelOther), Ok(LabelLower)}
              => fn.category = Some(FnRule)
        /\ fn.response = Ok(CategoryText["Technical"]) => fn.category = Some("Technical")
        /\ fn.response = Ok(LabelPadded) => fn.category = Some("Research")
        /\ fn.category # Some(FnRule) =>
              /\ fn.response.status = 200 /\ fn.response.content # None
              /\ fn.category[1] \in valid_categories
              /\ Contains(fn.response.content[1], CategoryText[fn.category[1]])
        /\ fn.category[1] \in Taxonomy

\* the service answered General for a posting whose rule-based category is
\* Research, and the classifier returned Research
C14_Witness ==
    /\ fn.phase = "classified" /\ api_enabled(fn.key)
    /\ fn.response = Ok(CategoryText["General"])
    /\ fn.category = Some("Research")

\* ---- C15

\* C15 as stated: once a storage operation of a pass has failed, the pass
\* processes no further record and ends reporting failure to its caller.
C15_StorageFailureFatal ==
    \A p \in Passes :
        (passes[p].raised # {} \/ passes[p].error) =>
            /\ passes[p].pc = "done"
            /\ passes[p].error
            /\ passes[p].value # None

\* C15, amended: a failure of the selection query ends the pass with no
\* record processed and no posting changed; a failure of one record's update
\* is isolated: that posting is left untouched and the pass goes on to every
\* remaining record and completes; either way the pass returns nothing to
\* its caller, the failure being logged only; and every posting is left
\* either fully updated (summary and category set together) or untouched.
C15_StorageFailureOutcome ==
    \A p \in Passes :
        LET pass == passes[p]
        IN  /\ pass.error =>
                  /\ pass.pc = "done"
                  /\ pass.attempted = {} /\ pass.persisted = {} /\ pass.raised = {}
                  /\ pass.logged = None /\ pass.returned /\ pass.value = None
                  /\ jobs = pass.pre
            /\ (pass.raised # {} /\ pass.pc = "done") =>
                  /\ ~ pass.error
                  /\ pass.attempted = Ids(pass.cursor)
                  /\ pass.persisted = Ids(pass.cursor) \ pass.raised
                  /\ pass.returned /\ pass.value = None
            /\ pass.pc # "idle" =>
                  \A i \in 1..Len(pass.pre) :
                      \/ jobs[i] = pass.pre[i]
                      \/ /\ jobs[i].id \in pass.persisted \ pass.raised
                         /\ jobs[i].summary # None
                         /\ jobs[i] = [pass.pre[i] EXCEPT !.summary = jobs[i].summary,
                                                          !.category = jobs[i].category]

\* the update of the first selected record raised, the pass went on, persisted
\* the second and completed without reporting anything
C15_Witness ==
    \E p \in Passes :
        /\ passes[p].pc = "done" /\ ~ passes[p].error
        /\ Len(passes[p].cursor) = 2
        /\ passes[p].raised = {passes[p].cursor[1].id}
        /\ passes[p].persisted = {passes[p].cursor[2].id}
        /\ Doc(jobs, passes[p].cursor[1].id) = passes[p].cursor[1]
        /\ passes[p].value = None

\* ---- C16

\* C16: every step of the system, a pass being stoppable between any two of
\* its steps, leaves each posting exactly as it was or sets, in that one
\* step, both the summary and the category the pass has computed for it and
\* nothing else; so no state shows a posting with the new summary and not yet
\* the category decided with it, and a posting of a running or stopped pass is
\* either as before the pass or among those the pass has persisted.
C16_NoTornWrites ==
    [][/\ \A i \in 1..Len(jobs) :
             \/ jobs'[i] = jobs[i]
             \/ \E p \in Passes :
                   /\ passes[p].pc = "update"
                   /\ CurrentJob(passes[p]).id = jobs[i].id
                   /\ passes[p].summary # None
                   /\ jobs'[i] = [jobs[i] EXCEPT !.summary = passes[p].summary,
                                                 !.category = passes[p].category]
                   /\ NeedsCategory(jobs[i]) =>
                         /\ passes[p].category # None
                         /\ passes[p].category[1] \in Taxonomy
       /\ \A p \in Passes : passes'[p].pc # "idle" =>
             \A i \in 1..Len(passes'[p].pre) :
                 \/ jobs'[i] = passes'[p].pre[i]
                 \/ jobs'[i].id \in passes'[p].persisted]_vars

\* a pass was stopped after the update of the first of its two records, whose
\* category it changed, and before the second
C16_Witness ==
    \E p \in Passes :
        /\ passes[p].pc = "stopped"
        /\ Len(passes[p].cursor) = 2
        /\ Cardinality(passes[p].persisted) = 1
        /\ \E id \in passes[p].persisted :
              /\ Doc(jobs, id).summary # None
              /\ Doc(jobs, id).category # Doc(passes[p].pre, id).category
        /\ \E id \in Ids(passes[p].cursor) \ passes[p].persisted :
              Doc(jobs, id) = Doc(passes[p].pre, id)

\* ---- C17

\* C17 as stated: no step removes a posting from storage.
C17_NoPhysicalDeletion ==
    [][Ids(jobs) \subseteq Ids(jobs')]_vars

\* ---- C18

\* the sentences of the input of the application
FnSentences == split(fn.description, PeriodSpace)

\* the rule-based summarizer answered for the input of the application
FnRuleBasedSummary == fn.phase = "summarized" /\ ServiceUnavailable

\* the first two sentences joined: the text up to the second sentence
\* boundary, closed by a period
FirstTwoJoined ==
    FnSentences[1] \o PeriodSpace \o FnSentences[2] \o <<".">>

\* C18 as stated: two sentences or more give the first two joined; fewer
\* than two give at most the first 200 characters followed by the ellipsis
\* marker, never more than 203 characters.
C18_SummaryShape ==
    FnRuleBasedSummary =>
        /\ Len(FnSentences) >= 2 => fn.summary[1] = FirstTwoJoined
        /\ fn.description = DescRobotics => fn.summary[1] = SubSeq(DescRobotics, 1, 54)
        /\ Len(FnSentences) < 2 =>
              /\ fn.summary[1] = Slice(fn.description, 200) \o Ellipsis
              /\ Len(fn.summary[1]) <= 203

\* C18, amended: two sentences or more give the first two joined; fewer than
\* two give the description unchanged when it has at most 200 characters,
\* and its first 200 characters followed by the ellipsis marker when it has
\* more, never more than 203 characters.
C18_SummaryShapeOfShortText ==
    FnRuleBasedSummary =>
        /\ Len(FnSentences) >= 2 => fn.summary[1] = FirstTwoJoined
        /\ fn.description = DescRobotics => fn.summary[1] = SubSeq(DescRobotics, 1, 54)
        /\ Len(FnSentences) < 2 =>
              /\ Len(fn.description) <= 200 => fn.summary[1] = fn.description
              /\ Len(fn.description) > 200 =>
                    fn.summary[1] = Slice(fn.description, 200) \o Ellipsis
              /\ Len(fn.summary[1]) <= 203

\* the rule-based summarizer answered for one sentence of 500 characters
\* with 203 characters
C18_Witness ==
    /\ FnRuleBasedSummary
    /\ Len(FnSentences) = 1
    /\ Len(fn.description) = 500
    /\ Len(fn.summary[1]) = 203

\* ---- C19

\* some (university, url) is carried by two active postings
DuplicateKey ==
    \E i, k \in 1..Len(jobs) :
        /\ i # k
        /\ jobs[i].is_active /\ jobs[k].is_active
        /\ Key(jobs[i]) = Key(jobs[k])

\* C19: find_one and insert_one are separate steps of save_jobs_to_db, so two
\* ingestion runs whose steps interleave can leave two active postings with
\* the same (university, url); two runs that do not interleave (the second
\* begins when the first has returned) never do, and neither does one run
\* alone: two active postings share a key only when one of the runs began
\* while the other was running, and then each run inserted one of them.
C19_DuplicateOnlyByInterleaving ==
    DuplicateKey =>
        /\ \E r \in RaceRuns : runs[r].overlap
        /\ \A r \in RaceRuns : runs[r].inserted >= 1

\* two interleaved runs have both returned, each has inserted its candidate,
\* and the two postings have the same key
C19_Witness ==
    /\ DuplicateKey
    /\ \A r \in RaceRuns : runs[r].pc = "done" /\ runs[r].inserted = 1
    /\ \E r \in RaceRuns : runs[r].overlap

\* ---- C20

\* C20 as stated (every call of the pass fails): when the pass has ended,
\* every record whose summarization call failed still lacks a summary and is
\* selected by the next pass's query.
C20_DeferredRetry ==
    \A p \in Passes :
        (passes[p].pc = "done" /\ ~ passes[p].error) =>
            \A id \in passes[p].attempted :
                /\ Doc(jobs, id).summary = None
                /\ id \in Ids(find_unprocessed(jobs))

\* C20, amended (every call of the pass fails): a record whose summarization
\* call failed is given the rule-based summary in the same pass; once its
\* update is stored it has a summary when the pass ends, the next pass's
\* query does not select it and no call is made for it again; only a record
\* whose update raised still lacks a summary and is selected again.
C20_FallbackStoredNotRetried ==
    \A p \in Passes :
        (passes[p].pc = "done" /\ ~ passes[p].error) =>
            \A id \in passes[p].attempted :
                /\ id \in passes[p].persisted =>
                      /\ Doc(jobs, id).summary # None
                      /\ Doc(jobs, id).summary =
                            Some(generate_basic_summary(Doc(jobs, id).title,
                                                        Doc(jobs, id).description))
                      /\ id \notin Ids(find_unprocessed(jobs))
                /\ id \notin passes[p].persisted =>
                      /\ id \in passes[p].raised
                      /\ Doc(jobs, id).summary = None
                      /\ id \in Ids(find_unprocessed(jobs))

\* a pass with a key has ended; the summarization call of its record failed,
\* the record carries the rule-based summary and the next query leaves it out
C20_Witness ==
    \E p \in Passes :
        /\ passes[p].pc = "done" /\ ~ passes[p].error
        /\ api_enabled(passes[p].key)
        /\ passes[p].calls >= 1
        /\ passes[p].persisted # {}
        /\ \A id \in passes[p].persisted :
              /\ Doc(jobs, id).summary # None
              /\ id \notin Ids(find_unprocessed(jobs))

\* ---- C21

\* the records of a pass whose processing has begun and not yet ended
InFlight(pass) == pass.attempted \ (pass.persisted \cup pass.raised)

\* the records the cursor has yielded before the current one
Yielded(pass) == {pass.cursor[k].id : k \in 1..(pass.idx - 1)}

\* C21: within one pass at most one record is being enriched at any time:
\* between the summarizer call and the end of the update the record in
\* flight is the current one and only it; when the calls for a record begin,
\* every record the cursor yielded before it has ended, persisted or failed.
C21_StrictlySequential ==
    \A p \in Passes :
        LET pass == passes[p]
        IN  pass.pc # "idle" =>
              /\ Cardinality(InFlight(pass)) <= 1
              /\ pass.pc \in {"categorize", "update"} =>
                    InFlight(pass) = {CurrentJob(pass).id}
              /\ pass.pc \in {"summarize", "sleep", "done"} => InFlight(pass) = {}
              /\ pass.pc \in {"summarize", "categorize", "update"} =>
                    /\ Yielded(pass) \subseteq pass.persisted \cup pass.raised
                    /\ pass.attempted \subseteq Yielded(pass) \cup {CurrentJob(pass).id}

\* the calls for the second record of a pass have begun, after the first
\* record was persisted
C21_Witness ==
    \E p \in Passes :
        /\ passes[p].pc = "categorize"
        /\ passes[p].idx = 2
        /\ passes[p].calls >= 2
        /\ passes[p].cursor[1].id \in passes[p].persisted
        /\ InFlight(passes[p]) = {passes[p].cursor[2].id}

\* ---- C22

\* C22 as stated: when a pass with the AI path on is about to make the first
\* call for a record that is not the first of the pass, a full pacing wait
\* has taken place since the previous record's processing ended.
C22_Pacing ==
    \A p \in Passes :
        (/\ passes[p].pc = "summarize"
         /\ passes[p].idx > 1
         /\ api_enabled(passes[p].key))
            => passes[p].slept

\* ---- C23

\* C23: in one pass the cursor holds no record twice, each step of the loop
\* takes a record the pass has not taken before, so a record is summarized
\* at most once and classified at most once, and the calls of the pass are
\* at most one per summarized record plus one per classified record,
\* whatever the service answers.
C23_NoRetryWithinPass ==
    \A p \in Passes :
        LET pass == passes[p]
        IN  pass.pc # "idle" =>
              /\ \A i, k \in 1..Len(pass.cursor) :
                    i # k => pass.cursor[i].id # pass.cursor[k].id
              /\ pass.pc = "summarize" => CurrentJob(pass).id \notin pass.attempted
              /\ pass.pc = "categorize" => CurrentJob(pass).id \notin pass.classified
              /\ Cardinality(pass.attempted)
                    = IF pass.pc = "summarize" THEN pass.idx - 1 ELSE pass.idx
              /\ pass.classified \subseteq pass.attempted
              /\ pass.calls <= Cardinality(pass.attempted) + Cardinality(pass.classified)
              /\ api_enabled(pass.key) =>
                    pass.calls >= Cardinality(pass.attempted)

\* a pass with a key has ended after two records, one of whose updates
\* raised: four calls were made, two per record
C23_Witness ==
    \E p \in Passes :
        /\ passes[p].pc = "done" /\ ~ passes[p].error
        /\ api_enabled(passes[p].key)
        /\ Len(passes[p].cursor) = 2
        /\ Cardinality(passes[p].classified) = 2
        /\ Cardinality(passes[p].raised) = 1
        /\ passes[p].calls = 4

\* ---- C24

\* the posting is as before the pass in every field but summary and category
SameButEnrichment(now, before) ==
    now = [before EXCEPT !.summary = now.summary, !.category = now.category]

\* C24: while a pass runs and when it has ended, storage holds the postings
\* it held when the pass began, in the same number; each differs from what it
\* was in summary and category at most (identifier, title, university,
\* description, url, location, deadline, date_added and is_active are as
\* before); and a posting that was inactive, had a summary or was not selected
\* is unchanged in every field.
C24_FrameOfPass ==
    \A p \in Passes :
        LET pass == passes[p]
        IN  pass.pc # "idle" =>
              /\ Len(jobs) = Len(pass.pre)
              /\ \A i \in 1..Len(pass.pre) :
                    /\ SameButEnrichment(jobs[i], pass.pre[i])
                    /\ (\/ ~ pass.pre[i].is_active
                        \/ pass.pre[i].summary # None
                        \/ pass.pre[i].id \notin Ids(pass.cursor))
                          => jobs[i] = pass.pre[i]
                    /\ jobs[i] # pass.pre[i] => jobs[i].id \in pass.persisted

\* a pass over a storage with a deactivated posting and postings that had a
\* summary has ended after changing the category of a posting it selected
C24_Witness ==
    \E p \in Passes :
        /\ passes[p].pc = "done" /\ ~ passes[p].error
        /\ \E i \in 1..Len(jobs) : ~ jobs[i].is_active /\ jobs[i].summary = None
        /\ \E i \in 1..Len(jobs) :
              jobs[i].summary # None /\ jobs[i].id \notin Ids(passes[p].cursor)
        /\ \E i \in 1..Len(jobs) :
              /\ jobs[i].id \in passes[p].persisted
              /\ jobs[i].category # passes[p].pre[i].category

\* ---- C25

\* C25 as stated: save_jobs_to_db discards a candidate exactly when storage
\* holds an active posting with the candidate's (university, url).
C25_DedupActiveOnly ==
    [][\A r \in Runs :
          (runs[r].pc = "find" /\ runs'[r] # runs[r]) =>
              (runs'[r].skipped = runs[r].skipped + 1
                  <=> ActiveWithKey(jobs, Key(runs'[r].job[1])) # {})]_vars

\* ---- C26

\* C26: a step in which save_jobs_to_db discards a candidate (its key is in
\* storage) leaves storage exactly as it was: no posting is changed, none is
\* inserted, no identifier is drawn; nothing is raised, and the call goes on
\* to check the next candidate when there is one, and returns when there is
\* none.
C26_DiscardIsNoOp ==
    [][\A r \in Runs :
          runs'[r].skipped = runs[r].skipped + 1 =>
              /\ find_one(runs'[r].job[1].url, runs'[r].job[1].university) # None
              /\ jobs' = jobs
              /\ next_id' = next_id
              /\ runs'[r].inserted = runs[r].inserted
              /\ IF runs[r].left > 1
                 THEN runs'[r].pc = "find" /\ runs'[r].left = runs[r].left - 1
                 ELSE runs'[r].pc = "done"]_vars

\* in a call of two candidates the first was discarded as a duplicate, the
\* second has then been checked and is about to be inserted
C26_Witness ==
    \E r \in Runs :
        /\ runs[r].pc = "insert"
        /\ runs[r].skipped = 1 /\ runs[r].inserted = 0
        /\ runs[r].left = 1
        /\ find_one(runs[r].job[1].url, runs[r].job[1].university) = None

\* ---- C27

\* C27 as stated: the rule-based summary and the rule-based category of an
\* input are those of every input with the same description, whatever its
\* title.
C27_DescriptionOnly ==
    /\ FnRuleBasedSummary =>
          \A t \in Titles :
              generate_basic_summary(t, fn.description) = fn.summary[1]
    /\ (fn.phase = "classified" /\ ServiceUnavailable) =>
          \A t \in Titles :
              basic_categorization(t, fn.description) = fn.category[1]

\* C27, amended: the rule-based summary of an input is that of every input
\* with the same description, whatever its title; the rule-based category
\* depends on the title as well as on the description: it is that of every
\* input with the same description and the same title up to letter case.
C27_DeterminismOfFallbacks ==
    /\ FnRuleBasedSummary =>
          \A t \in Titles :
              generate_basic_summary(t, fn.description) = fn.summary[1]
    /\ (fn.phase = "classified" /\ ServiceUnavailable) =>
          \A t \in Titles :
              lower(t) = lower(fn.title) =>
                  basic_categorization(t, fn.description) = fn.category[1]

\* the rule-based classifier answered Research for the title "POSTDOC" and a
\* description without keyword, which it answers for the title "Postdoc"
\* too and not for the title "staff"
C27_Witness ==
    /\ fn.phase = "classified" /\ ServiceUnavailable
    /\ fn.title = WPostdocUpper /\ fn.description = WStaff
    /\ fn.category = Some("Research")
    /\ basic_categorization(WPostdoc, fn.description) = "Research"
    /\ basic_categorization(WStaff, fn.description) = "General"

\* ---- C28

\* C28: two passes interleaved on one storage may both select and process
\* the same record, each making its own calls; in every state, and so when
\* both have finished, each posting is as it was stored or carries a
\* (summary, category) pair that one pass wrote in one update, and no field
\* other than summary and category has changed; no posting is added or lost.
C28_ConcurrentPassesKeepData ==
    /\ Len(jobs) = Len(ConcurrentStored)
    /\ \A i \in 1..Len(jobs) :
          /\ SameButEnrichment(jobs[i], ConcurrentStored[i])
          /\ \/ jobs[i] = ConcurrentStored[i]
             \/ \E p \in AllPasses :
                   <<jobs[i].id, jobs[i].summary, jobs[i].category>>
                       \in passes[p].writes

\* both passes have finished; both selected the first posting, made calls
\* for it and wrote it, with different categories
C28_Witness ==
    /\ \A p \in AllPasses :
          /\ passes[p].pc = "done" /\ ~ passes[p].error
          /\ 1 \in passes[p].persisted
          /\ passes[p].calls >= 2
    /\ \E w1 \in passes["p1"].writes : \E w2 \in passes["p2"].writes :
          w1[1] = 1 /\ w2[1] = 1 /\ w1[3] # w2[3]

\* ---- C29

\* C29 as stated: no step replaces a stored category that is present and
\* not the sentinel by a different value.
C29_SpecificCategoryKept ==
    [][\A i \in 1..Len(jobs) :
          Specific(jobs[i].category) => jobs'[i].category = jobs[i].category]_vars

\* ---- C30

\* the active postings whose own processing succeeds all have a summary
AllHealthyEnriched ==
    \A i \in 1..Len(jobs) :
        (jobs[i].is_active /\ jobs[i].description # Absent)
            => jobs[i].summary # None

\* C30 as stated: when passes are run again and again, every active posting
\* without a summary whose own processing succeeds is eventually enriched,
\* whatever number of postings fail on every pass.
C30_Progress == <>AllHealthyEnriched

====
